---- MODULE Spec2Model ----
(***************************************************************************)
(* Model of the link shortening service (internal/linkservice/service.go)  *)
(* and of the links table it works on (database/scheme.sql).               *)
(*                                                                         *)
(* Strings are sequences of one-character strings, so that the two         *)
(* validation patterns and the code generator are computed character by    *)
(* character.  Every request handler is a process: gRPC runs each request  *)
(* in its own goroutine and the handlers share only the database.  One     *)
(* step of a handler is the code from one database statement up to the     *)
(* next one (or up to the return).  A handler's variables live while its   *)
(* call runs; what a call returned is kept in last until the next return.  *)
(***************************************************************************)
EXTENDS Integers, Sequences, FiniteSets, TLC

(***************************************************************************)
(* Bounds of the model.                                                    *)
(***************************************************************************)
\* number of request handlers that may run at the same time
NumHandlers == 2
\* the random source is drawn from the seeds 0..MaxSeed
MaxSeed == 1

(***************************************************************************)
(* Program constants.                                                      *)
(***************************************************************************)
\* service.go:16   lengthLink = 10
lengthLink == 10
\* service.go:24   the {10} of linkTemplate
linkTemplateLen == 10
\* scheme.sql:2    link char(10)
linkColumnLen == 10
\* scheme.sql:3    original_url varchar(2048)
urlColumnLen == 2048

(***************************************************************************)
(* Character classes.                                                      *)
(***************************************************************************)
Digits == {"0", "1", "2", "3", "4", "5", "6", "7", "8", "9"}

Upper == {"A", "B", "C", "D", "E", "F", "G", "H", "I", "J", "K", "L", "M",
          "N", "O", "P", "Q", "R", "S", "T", "U", "V", "W", "X", "Y", "Z"}

Lower == {"a", "b", "c", "d", "e", "f", "g", "h", "i", "j", "k", "l", "m",
          "n", "o", "p", "q", "r", "s", "t", "u", "v", "w", "x", "y", "z"}

\* \w of the regular expressions (RE2: ASCII only)
WordChars == Digits \cup Upper \cup Lower \cup {"_"}

\* [\w.-] : the characters of a host label
HostChars == WordChars \cup {".", "-"}

\* [\w\-\._~:/?#[\]@!\$&'\(\)\*\+,;=.] : the characters of the tail
TailChars == WordChars \cup {"-", ".", "_", "~", ":", "/", "?", "#", "[", "]",
                             "@", "!", "$", "&", "'", "(", ")", "*", "+", ",",
                             ";", "="}

\* [0-9a-zA-Z_] : the characters of a short link
LinkChars == Digits \cup Lower \cup Upper \cup {"_"}

\* the alphabet of generateRandomCharacters, in its order
alphabet ==
    << "0", "1", "2", "3", "4", "5", "6", "7", "8", "9",
       "A", "B", "C", "D", "E", "F", "G", "H", "I", "J", "K", "L", "M",
       "N", "O", "P", "Q", "R", "S", "T", "U", "V", "W", "X", "Y", "Z",
       "_",
       "a", "b", "c", "d", "e", "f", "g", "h", "i", "j", "k", "l", "m",
       "n", "o", "p", "q", "r", "s", "t", "u", "v", "w", "x", "y", "z" >>

(***************************************************************************)
(* The validation patterns.                                                *)
(***************************************************************************)
HasPrefix(s, pre) ==
    /\ Len(s) >= Len(pre)
    /\ \A i \in 1..Len(pre) : s[i] = pre[i]

DropPrefix(s, n) == [i \in 1..(Len(s) - n) |-> s[i + n]]

\* ^[\w.-]+(?:\.[\w\.-]+)+[tail]+$ on r.  A match is a dot at a position p
\* with at least one host character before it and one after it (the shortest
\* second label), everything up to p+1 made of host characters, and a
\* non-empty rest made of tail characters; the host characters are tail
\* characters too, so a longer host never matches more.
HostAndTailMatch(r) ==
    \E p \in 2..(Len(r) - 2) :
        /\ r[p] = "."
        /\ \A i \in 1..(p + 1) : r[i] \in HostChars
        /\ \A i \in (p + 2)..Len(r) : r[i] \in TailChars

SchemeHTTP == << "h", "t", "t", "p", ":", "/", "/" >>
SchemeHTTPS == << "h", "t", "t", "p", "s", ":", "/", "/" >>

\* URLTemplate.MatchString(s): the scheme group (?:http(s)?:\/\/)? is optional
URLTemplate(s) ==
    \/ HostAndTailMatch(s)
    \/ HasPrefix(s, SchemeHTTP) /\ HostAndTailMatch(DropPrefix(s, Len(SchemeHTTP)))
    \/ HasPrefix(s, SchemeHTTPS) /\ HostAndTailMatch(DropPrefix(s, Len(SchemeHTTPS)))

\* a variant of linkTemplate that forgets the length
linkTemplate_anyLength(s) == \A i \in 1..Len(s) : s[i] \in LinkChars

\* linkTemplate.MatchString(s): ^[0-9a-zA-Z_]{10}$
linkTemplate(s) ==
    /\ Len(s) = linkTemplateLen
    /\ \A i \in 1..Len(s) : s[i] \in LinkChars

(***************************************************************************)
(* The code generator.                                                     *)
(***************************************************************************)
\* rand.Intn(n) for the i-th character of a generation: some number of
\* 0..n-1.  The model draws it from a bounded family of outcomes, one per
\* seed, that differ from seed to seed and from position to position.
Intn(seed, i, n) == (seed * 29 + i * (2 * seed + 7)) % n

\* a generator whose loop stops one character early
generateRandomCharacters_short(length, seed) ==
    [i \in 1..(length - 1) |-> alphabet[Intn(seed, i - 1, Len(alphabet)) + 1]]

\* generateRandomCharacters(length)
generateRandomCharacters(length, seed) ==
    [i \in 1..length |-> alphabet[Intn(seed, i - 1, Len(alphabet)) + 1]]

Seeds == 0..MaxSeed


(***************************************************************************)
(* Errors.  An error is the text of its message; no error is ErrNil.       *)
(***************************************************************************)
ErrNil == "nil"
ErrReqProc == "linkservice: the request could not be processed"
ErrInvalidURL == "linkservice: the request contains an invalid URL"
ErrInvalidLink == "linkservice: the request contains an invalid link"
ErrURLNotFound == "linkservice: unknown abbreviated link - the original URL was not found"
\* sql.ErrNoRows
ErrNoRows == "sql: no rows in result set"
\* the text Create compares the error of the INSERT with
UCViolation == "pq: duplicate key value violates unique constraint \"link_pk\""
\* what the database reports for the other constraints of the table
URLViolation == "pq: duplicate key value violates unique constraint \"original_url_unique\""
URLTooLong == "pq: value too long for type character varying(2048)"
LinkTooLong == "pq: value too long for type character(10)"
\* what database/sql reports when the database cannot be reached
ErrBadConn == "driver: bad connection"

(***************************************************************************)
(* The requests the handlers are called with.                              *)
(*                                                                         *)
(* A URL is held by its name in the table URLText, which gives its         *)
(* characters: two names are equal exactly when their texts are.  The      *)
(* handlers and the table links pass a URL on unchanged, so only the       *)
(* pattern and the column width look at the characters.                    *)
(***************************************************************************)
URLPrefix == << "h", "t", "t", "p", ":", "/", "/", "a", ".", "b", "/" >>

URLText ==
    [ golang   |-> << "h", "t", "t", "p", "s", ":", "/", "/", "g", "o", "l", "a", "n", "g", ".", "o", "r", "g", "/" >>,
      abc      |-> << "h", "t", "t", "p", ":", "/", "/", "a", "b", "c", ".", "a", "b", "c", "/" >>,
      notAURL  |-> << "t", "h", "i", "s", " ", "i", "s", " ", "n", "o", "t", " ", "a", " ", "U", "R", "L" >>,
      \* a URL the pattern accepts, one character longer than the column
      tooLong  |-> URLPrefix \o [i \in 1..(urlColumnLen + 1 - Len(URLPrefix)) |-> "a"] ]

URLInputs == DOMAIN URLText

\* URLTemplate.MatchString on each of the URLs above
URLTemplateMatch == [s \in URLInputs |-> URLTemplate(URLText[s])]

(***************************************************************************)
(* The links table.                                                        *)
(***************************************************************************)
LinkRow(l, u) == [link |-> l, original_url |-> u]

\* SELECT link FROM links WHERE original_url = u
SelectByURL(rows, u) == {r \in rows : r.original_url = u}

\* SELECT original_url FROM links WHERE link = l
SelectByLink(rows, l) == {r \in rows : r.link = l}

\* the table without the constraint original_url_unique
InsertErrors_noURLUnique(rows, l, u) ==
    IF Len(l) > linkColumnLen THEN {LinkTooLong}
    ELSE IF Len(URLText[u]) > urlColumnLen THEN {URLTooLong}
    ELSE IF SelectByLink(rows, l) # {} THEN {UCViolation}
    ELSE {ErrNil}

\* the table without the constraint link_pk
InsertErrors_noPrimaryKey(rows, l, u) ==
    IF Len(l) > linkColumnLen THEN {LinkTooLong}
    ELSE IF Len(URLText[u]) > urlColumnLen THEN {URLTooLong}
    ELSE IF SelectByURL(rows, u) # {} THEN {URLViolation}
    ELSE {ErrNil}

\* INSERT INTO links (link, original_url) VALUES (l, u): the errors the
\* database may answer with (ErrNil: the row is inserted).  The values are
\* fitted to the column types first, then the two unique indexes are
\* checked; when both are violated the model leaves open which one the
\* database names.
InsertErrors(rows, l, u) ==
    IF Len(l) > linkColumnLen THEN {LinkTooLong}
    ELSE IF Len(URLText[u]) > urlColumnLen THEN {URLTooLong}
    ELSE LET pk == SelectByLink(rows, l) # {}
             uq == SelectByURL(rows, u) # {}
         IN  IF pk /\ uq THEN {UCViolation, URLViolation}
             ELSE IF pk THEN {UCViolation}
             ELSE IF uq THEN {URLViolation}
             ELSE {ErrNil}

(***************************************************************************)
(* The short links Get is called with, the handlers and the first table.   *)
(***************************************************************************)
LinkBadChars == << "@", "5", "g", "f", "h", "3", "5", "^", "G", "d", "f", "h", "&", "E", "W", "R" >>
LinkBadChar == << "1", "2", "3", "-", "a", "b", "c", "A", "B", "C" >>
LinkShort == << "1", "2", "3", "_", "a", "b", "c", "A", "B" >>

GeneratedLinks == {generateRandomCharacters(lengthLink, seed) : seed \in Seeds}

\* the links the generator can produce (stored or not) and malformed ones
LinkInputs == GeneratedLinks \cup {LinkBadChars, LinkBadChar, LinkShort}

Handlers == 1..NumHandlers

\* the table when the service starts: empty, or holding a row of an earlier run
InitialStores == { {}, {LinkRow(generateRandomCharacters(lengthLink, 0), "abc")} }


(***************************************************************************)
(* State.                                                                  *)
(***************************************************************************)
VARIABLES
    links,       \* the rows of the table links
    pc,          \* where each handler stands
    reqUrl,      \* Create's request, req.GetUrl()
    reqLink,     \* Get's request, req.GetLink()
    err,         \* the handler's local variable err
    trace,       \* history: the database statements the call has issued
    rival,       \* history: "beaten" once a Create racing the call has inserted its row
    last,        \* the call that returned last: request, result and history
    created,     \* history: the (url, code) pairs successful Creates returned
    cancelled    \* ctx.Done() of the call: its caller has cancelled it

vars == << links, pc, reqUrl, reqLink, err, trace, rival, last, created, cancelled >>

EmptyString == << >>
NoURL == "none"

\* return nil, e
Failure(e) == [err |-> e, resp |-> FALSE, link |-> EmptyString, url |-> NoURL]

\* return &api.Link{Link: l}, nil
LinkResponse(l) == [err |-> ErrNil, resp |-> TRUE, link |-> l, url |-> NoURL]

\* return &api.URL{Url: u}, nil
URLResponse(u) == [err |-> ErrNil, resp |-> TRUE, link |-> EmptyString, url |-> u]

\* the record of a returned call: rows are the rows the call inserted
Returned(method, u, l, result, e, statements, rv, rows) ==
    [op |-> method, reqUrl |-> u, reqLink |-> l, res |-> result, err |-> e,
     trace |-> statements, rival |-> rv, added |-> rows]

Init ==
    /\ links \in InitialStores
    /\ pc = [p \in Handlers |-> "idle"]
    /\ reqUrl = [p \in Handlers |-> NoURL]
    /\ reqLink = [p \in Handlers |-> EmptyString]
    /\ err = [p \in Handlers |-> ErrNil]
    /\ trace = [p \in Handlers |-> {}]
    /\ rival = [p \in Handlers |-> "none"]
    /\ last = Returned("none", NoURL, EmptyString, Failure("none"), ErrNil, {}, "none", {})
    /\ created = {}
    /\ cancelled = [p \in Handlers |-> FALSE]

\* the handler's variables once its call has returned
Forget(p) ==
    /\ pc' = [pc EXCEPT ![p] = "idle"]
    /\ reqUrl' = [reqUrl EXCEPT ![p] = NoURL]
    /\ reqLink' = [reqLink EXCEPT ![p] = EmptyString]
    /\ err' = [err EXCEPT ![p] = ErrNil]
    /\ trace' = [trace EXCEPT ![p] = {}]
    /\ cancelled' = [cancelled EXCEPT ![p] = FALSE]

\* history: p and q are both between Create's lookup, which found no row,
\* and the INSERT that ends their loop, for the same URL
Racing(p, q) ==
    /\ p # q
    /\ pc[p] = "create_exec" /\ pc[q] = "create_exec"
    /\ reqUrl[p] = reqUrl[q]

\* history: a call that returns takes no mark along
NoWinner(returning) ==
    rival' = [x \in Handlers |-> IF x \in returning THEN "none" ELSE rival[x]]

\* history: once p has inserted its row, the calls racing it are marked
NoteWinner(p) ==
    rival' = [x \in Handlers |->
                 IF x = p THEN "none"
                 ELSE IF Racing(x, p) THEN "beaten"
                 ELSE rival[x]]

(***************************************************************************)
(* Create.                                                                 *)
(***************************************************************************)
\* a Create that checks nothing
CreateCall_noValidation(p, s) ==
    /\ pc[p] = "idle"
    /\ pc' = [pc EXCEPT ![p] = "create_query"]
    /\ reqUrl' = [reqUrl EXCEPT ![p] = s]
    /\ UNCHANGED << links, reqLink, err, trace, last, created, cancelled >>
    /\ NoWinner({})

\* Create is called with the URL s: the check against URLTemplate
CreateCall(p, s) ==
    /\ pc[p] = "idle"
    /\ IF ~URLTemplateMatch[s]
       THEN /\ last' = Returned("Create", s, EmptyString, Failure(ErrInvalidURL),
                                ErrNil, {}, "none", {})
            /\ UNCHANGED << pc, reqUrl >>
       ELSE /\ pc' = [pc EXCEPT ![p] = "create_query"]
            /\ reqUrl' = [reqUrl EXCEPT ![p] = s]
            /\ UNCHANGED last
    /\ UNCHANGED << links, reqLink, err, trace, created, cancelled >>
    /\ NoWinner({})

\* a Create that goes on to its loop although the lookup found a row
CreateScan_noEarlyReturn(p, e, found) ==
    /\ pc[p] = "create_query"
    /\ IF e # ErrNil /\ e # ErrNoRows
       THEN /\ last' = Returned("Create", reqUrl[p], EmptyString, Failure(ErrReqProc),
                                e, {"query"}, rival[p], {})
            /\ Forget(p)
            /\ NoWinner({p})
            /\ UNCHANGED created
       ELSE /\ pc' = [pc EXCEPT ![p] = "create_exec"]
            /\ err' = [err EXCEPT ![p] = e]
            /\ trace' = [trace EXCEPT ![p] = @ \cup {"query"}]
            /\ UNCHANGED << reqUrl, reqLink, last, created, cancelled >>
            /\ NoWinner({})
    /\ UNCHANGED links

\* the lookup by URL answered with the error e and (under ErrNil) the link
\* found: row.Scan and the two tests of err that follow it
CreateScan(p, e, found) ==
    /\ pc[p] = "create_query"
    /\ IF e # ErrNil /\ e # ErrNoRows
       THEN /\ last' = Returned("Create", reqUrl[p], EmptyString, Failure(ErrReqProc),
                                e, {"query"}, rival[p], {})
            /\ Forget(p)
            /\ NoWinner({p})
            /\ UNCHANGED created
       ELSE IF e = ErrNil
       THEN /\ last' = Returned("Create", reqUrl[p], EmptyString, LinkResponse(found),
                                e, {"query"}, rival[p], {})
            /\ created' = created \cup {<< reqUrl[p], found >>}
            /\ Forget(p)
            /\ NoWinner({p})
       ELSE /\ pc' = [pc EXCEPT ![p] = "create_exec"]
            /\ err' = [err EXCEPT ![p] = e]
            /\ trace' = [trace EXCEPT ![p] = @ \cup {"query"}]
            /\ UNCHANGED << reqUrl, reqLink, last, created, cancelled >>
            /\ NoWinner({})
    /\ UNCHANGED links

\* SELECT link FROM links WHERE original_url = $1, answered by the database
CreateQueryRow(p) ==
    /\ pc[p] = "create_query"
    /\ LET found == SelectByURL(links, reqUrl[p])
       IN  \/ found = {} /\ CreateScan(p, ErrNoRows, EmptyString)
           \/ \E r \in found : CreateScan(p, ErrNil, r.link)

\* the same statement when the database cannot be reached
CreateQueryRowFails(p) == CreateScan(p, ErrBadConn, EmptyString)

\* a test that takes every error of the INSERT for a final one
IsFinalExecError_everyError(e) == e # ErrNil

\* a test that takes every duplicate key for a code collision
IsFinalExecError_noDuplicate(e) == e # ErrNil /\ e # UCViolation /\ e # URLViolation

\* err != nil && err.Error() != UCViolation
IsFinalExecError(e) == e # ErrNil /\ e # UCViolation

\* a loop without its break: after an INSERT that succeeded it goes round
\* again
CreateLoop_noBreak(p, seed, e) ==
    LET candidate == generateRandomCharacters(lengthLink, seed)
    IN  /\ pc[p] = "create_exec"
        /\ IF IsFinalExecError(e)
           THEN /\ last' = Returned("Create", reqUrl[p], EmptyString, Failure(ErrReqProc),
                                    e, trace[p] \cup {"exec"}, rival[p], {})
                /\ Forget(p)
                /\ NoWinner({p})
                /\ UNCHANGED << links, created >>
           ELSE /\ links' = IF e = ErrNil
                            THEN links \cup {LinkRow(candidate, reqUrl[p])}
                            ELSE links
                /\ err' = [err EXCEPT ![p] = e]
                /\ trace' = [trace EXCEPT ![p] = @ \cup {"exec"}]
                /\ UNCHANGED << pc, reqUrl, reqLink, last, created, cancelled >>
                /\ NoWinner({})

\* one turn of the loop: a code is generated from the draws of seed and the
\* INSERT is answered with the error e
CreateLoop(p, seed, e) ==
    LET candidate == generateRandomCharacters(lengthLink, seed)
    IN  /\ pc[p] = "create_exec"
        /\ IF IsFinalExecError(e)
           THEN /\ last' = Returned("Create", reqUrl[p], EmptyString, Failure(ErrReqProc),
                                    e, trace[p] \cup {"exec"}, rival[p], {})
                /\ Forget(p)
                /\ NoWinner({p})
                /\ UNCHANGED << links, created >>
           ELSE IF e = ErrNil
           THEN /\ links' = links \cup {LinkRow(candidate, reqUrl[p])}
                /\ last' = Returned("Create", reqUrl[p], EmptyString, LinkResponse(candidate),
                                    e, trace[p] \cup {"exec"}, rival[p],
                                    {LinkRow(candidate, reqUrl[p])})
                /\ created' = created \cup {<< reqUrl[p], candidate >>}
                /\ Forget(p)
                /\ NoteWinner(p)
           ELSE /\ err' = [err EXCEPT ![p] = e]
                /\ trace' = [trace EXCEPT ![p] = @ \cup {"exec"}]
                /\ UNCHANGED << links, pc, reqUrl, reqLink, last, created, cancelled >>
                /\ NoWinner({})

\* INSERT INTO links (link, original_url) VALUES ($1, $2), answered by the
\* database
CreateExec(p) ==
    /\ pc[p] = "create_exec"
    /\ \E seed \in Seeds :
        \E e \in InsertErrors(links, generateRandomCharacters(lengthLink, seed), reqUrl[p]) :
            CreateLoop(p, seed, e)

\* the same statement when the database cannot be reached
CreateExecFails(p) == \E seed \in Seeds : CreateLoop(p, seed, ErrBadConn)

(***************************************************************************)
(* Get.                                                                    *)
(***************************************************************************)
\* Get is called with the short link s: the check against linkTemplate
GetCall(p, s) ==
    /\ pc[p] = "idle"
    /\ IF ~linkTemplate(s)
       THEN /\ last' = Returned("Get", NoURL, s, Failure(ErrInvalidLink),
                                ErrNil, {}, "none", {})
            /\ UNCHANGED << pc, reqLink >>
       ELSE /\ pc' = [pc EXCEPT ![p] = "get_query"]
            /\ reqLink' = [reqLink EXCEPT ![p] = s]
            /\ UNCHANGED last
    /\ UNCHANGED << links, reqUrl, err, trace, created, cancelled >>
    /\ NoWinner({})

\* a Get whose second test of err is missing
GetResult_noRowsForgotten(e, found) ==
    IF e # ErrNil /\ e # ErrNoRows THEN Failure(ErrReqProc)
    ELSE URLResponse(found)

\* the two tests of err after row.Scan, and the return
GetResult(e, found) ==
    IF e # ErrNil /\ e # ErrNoRows THEN Failure(ErrReqProc)
    ELSE IF e = ErrNoRows THEN Failure(ErrURLNotFound)
    ELSE URLResponse(found)

\* a Get that uses a link up: it deletes the row it has read
GetScan_consumesRow(p, e, found) ==
    /\ pc[p] = "get_query"
    /\ last' = Returned("Get", NoURL, reqLink[p], GetResult(e, found),
                        e, {"query"}, rival[p], {})
    /\ links' = IF e = ErrNil THEN links \ SelectByLink(links, reqLink[p]) ELSE links
    /\ Forget(p)
    /\ NoWinner({p})
    /\ UNCHANGED created

\* the lookup by link answered with the error e and (under ErrNil) the URL
\* found
GetScan(p, e, found) ==
    /\ pc[p] = "get_query"
    /\ last' = Returned("Get", NoURL, reqLink[p], GetResult(e, found),
                        e, {"query"}, rival[p], {})
    /\ Forget(p)
    /\ NoWinner({p})
    /\ UNCHANGED << links, created >>

\* SELECT original_url FROM links WHERE link = $1, answered by the database
GetQueryRow(p) ==
    /\ pc[p] = "get_query"
    /\ LET found == SelectByLink(links, reqLink[p])
       IN  \/ found = {} /\ GetScan(p, ErrNoRows, NoURL)
           \/ \E r \in found : GetScan(p, ErrNil, r.original_url)

\* the same statement when the database cannot be reached
GetQueryRowFails(p) == GetScan(p, ErrBadConn, NoURL)

(***************************************************************************)
(* Cancellation.                                                           *)
(***************************************************************************)
\* the caller of the call p handles cancels it: ctx is done from now on.
\* Create and Get receive ctx and never read it, and the statements go to
\* the database through QueryRow and Exec, which take no context: nothing
\* of the handler changes.
Cancel(p) ==
    /\ pc[p] # "idle"
    /\ ~cancelled[p]
    /\ cancelled' = [cancelled EXCEPT ![p] = TRUE]
    /\ UNCHANGED << links, pc, reqUrl, reqLink, err, trace, rival, last, created >>

(***************************************************************************)
(* Specifications.                                                         *)
(***************************************************************************)
\* no call is in progress
Quiet == \A q \in Handlers : pc[q] = "idle"

\* requests arrive at any time, the handlers run concurrently, and the
\* database answers every statement
NextAvailable ==
    \E p \in Handlers :
        \/ \E s \in URLInputs : CreateCall(p, s)
        \/ CreateQueryRow(p)
        \/ CreateExec(p)
        \/ \E s \in LinkInputs : GetCall(p, s)
        \/ GetQueryRow(p)

\* in addition, any statement may fail because the database is unreachable
Next ==
    \E p \in Handlers :
        \/ \E s \in URLInputs : CreateCall(p, s)
        \/ CreateQueryRow(p)
        \/ CreateQueryRowFails(p)
        \/ CreateExec(p)
        \/ CreateExecFails(p)
        \/ \E s \in LinkInputs : GetCall(p, s)
        \/ GetQueryRow(p)
        \/ GetQueryRowFails(p)

\* the database answers every statement and a call begins only once the
\* call before it has returned
NextSequential ==
    \E p \in Handlers :
        \/ \E s \in URLInputs : Quiet /\ CreateCall(p, s)
        \/ CreateQueryRow(p)
        \/ CreateExec(p)
        \/ \E s \in LinkInputs : Quiet /\ GetCall(p, s)
        \/ GetQueryRow(p)

\* the database answers every statement and a caller may cancel its call
\* while it runs
NextCancel ==
    \E p \in Handlers :
        \/ \E s \in URLInputs : CreateCall(p, s)
        \/ CreateQueryRow(p)
        \/ CreateExec(p)
        \/ \E s \in LinkInputs : GetCall(p, s)
        \/ GetQueryRow(p)
        \/ Cancel(p)

Spec == Init /\ [][Next]_vars

SpecAvailable == Init /\ [][NextAvailable]_vars

SpecSequential == Init /\ [][NextSequential]_vars

SpecCancel == Init /\ [][NextCancel]_vars

\* the call of p moves on: the database returns from the statement the call
\* waits for, with an answer or with a failure
HandlerStep(p) ==
    \/ CreateQueryRow(p)
    \/ CreateQueryRowFails(p)
    \/ CreateExec(p)
    \/ CreateExecFails(p)
    \/ GetQueryRow(p)
    \/ GetQueryRowFails(p)

\* a turn of Create's loop that ends it: the INSERT of the generated code is
\* not answered with the link_pk violation.  The codes of the model are a
\* bounded family of the 63^10 the generator draws from; a generator that
\* is fair draws, sooner or later, a code that no row has.
CreateExecLeaves(p) == CreateExec(p) /\ pc'[p] = "idle"

\* every statement returns and the generator is fair; requests need not
\* arrive
SpecFair ==
    /\ Init
    /\ [][Next]_vars
    /\ \A p \in Handlers : WF_vars(HandlerStep(p))
    /\ \A p \in Handlers : SF_vars(CreateExecLeaves(p))


(***************************************************************************)
(* Properties.                                                             *)
(***************************************************************************)

\* C1 (round trip): when a Get returns and some Create has returned the
\* link of its request for the URL u before, the Get returns exactly u, with
\* no error, whatever Creates and Gets ran in between.
RoundTrip ==
    \A u \in URLInputs :
        (last.op = "Get" /\ << u, last.reqLink >> \in created)
            => last.res = URLResponse(u)

\* a Get has returned the URL of a row that a Create of this run inserted
RoundTripWitness ==
    /\ last.op = "Get"
    /\ << "golang", last.reqLink >> \in created
    /\ last.res = URLResponse("golang")

\* C2 (sequential idempotence), as claimed: with one call at a time and the
\* database answering, every Create of a URL the pattern accepts succeeds
\* and returns the code every earlier successful Create of that URL returned.
SequentialIdempotence ==
    (last.op = "Create" /\ URLTemplateMatch[last.reqUrl])
        => /\ last.res.err = ErrNil
           /\ last.res.resp
           /\ \A pair \in created : pair[1] = last.reqUrl => pair[2] = last.res.link

\* C3 (idempotence under concurrency), as claimed: a Create that was past
\* its lookup when a concurrent Create of the same URL inserted its row
\* returns a code, and it is the code of that row.
ConcurrentIdempotence ==
    (last.op = "Create" /\ last.rival = "beaten")
        => /\ last.res.err = ErrNil
           /\ last.res.resp
           /\ LinkRow(last.res.link, last.reqUrl) \in links

\* C3, amended: such a Create, and any Create whose INSERT the constraint
\* original_url_unique rejects, returns ErrReqProc with no response and
\* inserts no row.
RaceLoserFails ==
    (last.op = "Create" /\ (last.rival = "beaten" \/ last.err = URLViolation))
        => /\ last.res = Failure(ErrReqProc)
           /\ last.added = {}

\* the loser of a race has returned
RaceLoserWitness ==
    /\ last.op = "Create"
    /\ last.rival = "beaten"
    /\ last.err = URLViolation
    /\ SelectByURL(links, last.reqUrl) # {}

\* C4 (store bijection): no two rows of links share a link and no two rows
\* share a URL.
StoreBijection ==
    \A r1, r2 \in links :
        (r1.link = r2.link \/ r1.original_url = r2.original_url) => r1 = r2

\* the table holds two rows and has rejected a second row for a URL
StoreBijectionWitness ==
    /\ Cardinality(links) >= 2
    /\ last.op = "Create"
    /\ last.rival = "beaten"

\* C5 (mapping lifecycle): a step never removes or changes a row, adds at
\* most one row, and adds a row only for a URL that has no row yet; so a
\* row stays for ever and no URL ever gets a second row.
MappingLifecycle ==
    [][ /\ links \subseteq links'
        /\ Cardinality(links' \ links) <= 1
        /\ \A r \in links' \ links : SelectByURL(links, r.original_url) = {}
      ]_vars

\* a row that a Create inserted is still there after a later Get of its link
MappingLifecycleWitness ==
    /\ last.op = "Get"
    /\ last.res.resp
    /\ << last.res.url, last.reqLink >> \in created
    /\ Cardinality(links) >= 2

\* C6 (invalid URL): a Create of a string the URL pattern does not match
\* returns ErrInvalidURL with no response, has issued no database statement
\* and has inserted no row.
InvalidURLRejected ==
    (last.op = "Create" /\ ~URLTemplateMatch[last.reqUrl])
        => /\ last.res = Failure(ErrInvalidURL)
           /\ last.trace = {}
           /\ last.added = {}

\* a Create of "this is not a URL" has returned
InvalidURLWitness ==
    /\ last.op = "Create"
    /\ last.reqUrl = "notAURL"
    /\ last.res.err = ErrInvalidURL

\* C7 (invalid link): a Get of a string that is not exactly 10 characters of
\* [0-9A-Za-z_] returns ErrInvalidLink with no response and has issued no
\* database statement, also when the database is unreachable.
InvalidLinkRejected ==
    (/\ last.op = "Get"
     /\ \/ Len(last.reqLink) # 10
        \/ \E i \in 1..Len(last.reqLink) : last.reqLink[i] \notin WordChars)
        => /\ last.res = Failure(ErrInvalidLink)
           /\ last.trace = {}

\* a Get of a link of 9 valid characters has returned
InvalidLinkWitness ==
    /\ last.op = "Get"
    /\ last.reqLink = LinkShort
    /\ last.res.err = ErrInvalidLink

\* C8 (not found): when the database answers the lookup of a Get, the Get
\* returns ErrURLNotFound, with no response, exactly when links holds no row
\* for the link at that moment.
NotFoundIffNoRow ==
    [][ \A p \in Handlers :
          (pc[p] = "get_query" /\ pc'[p] = "idle")
              => /\ last'.op = "Get" /\ last'.reqLink = reqLink[p]
                 /\ (SelectByLink(links, reqLink[p]) = {}
                        <=> last'.res = Failure(ErrURLNotFound))
                 /\ (SelectByLink(links, reqLink[p]) # {}
                        => last'.res.err # ErrURLNotFound)
      ]_vars

\* a Get of a well-formed link that has no row has returned
NotFoundWitness ==
    /\ last.op = "Get"
    /\ last.reqLink \in GeneratedLinks
    /\ SelectByLink(links, last.reqLink) = {}
    /\ last.res = Failure(ErrURLNotFound)

\* C9 (code collisions): a Create whose INSERT was rejected for the key
\* link_pk has not returned: it stands at the head of its loop again, about
\* to generate a code and insert; and no Create ever returns on such a
\* rejection.
CollisionRetried ==
    /\ \A p \in Handlers : err[p] = UCViolation => pc[p] = "create_exec"
    /\ last.err # UCViolation

\* a Create has had a code collision and is in its loop
CollisionWitness ==
    \E p \in Handlers :
        /\ pc[p] = "create_exec"
        /\ err[p] = UCViolation
        /\ "exec" \in trace[p]

\* C10 (other store failures): a Create returns ErrReqProc, with no response
\* and with no row inserted, on any error of the database other than "no
\* rows" on the lookup and the link_pk violation on the INSERT; it returns at
\* once, so no running handler has such an error behind it.
StoreFailureEndsCreate ==
    /\ (last.op = "Create" /\ last.err \notin {ErrNil, ErrNoRows, UCViolation})
          => /\ last.res = Failure(ErrReqProc)
             /\ last.added = {}
    /\ \A p \in Handlers : err[p] \in {ErrNil, ErrNoRows, UCViolation}
    /\ (last.op = "Create" /\ last.res.err = ErrReqProc) => last.added = {}

\* a Create has returned after the database failed on its INSERT
StoreFailureWitness ==
    /\ last.op = "Create"
    /\ last.err = ErrBadConn
    /\ "exec" \in last.trace
    /\ last.res = Failure(ErrReqProc)

\* C11 (code well-formedness): every candidate code the generator produces,
\* every code stored in the table and every code a successful Create returns
\* is exactly 10 characters long, each of them a digit, an ASCII letter or
\* the underscore, and is therefore accepted by the pattern Get checks its
\* request with.
WellFormedCode(c) ==
    /\ Len(c) = 10
    /\ \A i \in 1..10 : c[i] \in WordChars
    /\ linkTemplate(c)

\* what the generator can produce
CandidatesWellFormed ==
    \A seed \in Seeds : WellFormedCode(generateRandomCharacters(lengthLink, seed))

CodesWellFormed ==
    /\ CandidatesWellFormed
    /\ \A r \in links : WellFormedCode(r.link)
    /\ (last.op = "Create" /\ last.res.resp) => WellFormedCode(last.res.link)
    /\ \A pair \in created : WellFormedCode(pair[2])

\* a Create has generated a code, stored it and returned it
CodesWellFormedWitness ==
    /\ last.op = "Create"
    /\ last.res.resp
    /\ last.added = {LinkRow(last.res.link, last.reqUrl)}
    /\ last.added \subseteq links

\* C12 (termination): every call of Create and of Get returns, provided that
\* the database returns from every statement and the generator is fair; no
\* call stays in the collision loop for ever.
EveryCallReturns ==
    \A p \in Handlers : (pc[p] # "idle") ~> (pc[p] = "idle")

\* a Create went round its loop after a collision and has returned, and no
\* call is left running
EveryCallReturnsWitness ==
    /\ Quiet
    /\ last.op = "Create"
    /\ "exec" \in last.trace
    /\ last.res.resp
    /\ \E r \in links : r \notin last.added /\ r.link # last.res.link

\* C13 (cancellation): once the caller of a Create has cancelled it, the
\* call issues no further statement.  A Create that stands before the
\* INSERT of its loop when it is cancelled therefore returns ErrReqProc with
\* the statements it had issued before, and the table keeps its rows and
\* gains none.
CancelledCallStops ==
    [][\A p \in Handlers :
          (cancelled[p] /\ pc[p] = "create_exec" /\
           << pc[p], err[p], trace[p] >> # << pc'[p], err'[p], trace'[p] >>)
             => /\ pc'[p] = "idle"
                /\ last'.res = Failure(ErrReqProc)
                /\ last'.trace = trace[p]
                /\ links' = links]_vars

\* C14 (single winner): of the Creates that looked the same URL up, found
\* no row and went on to insert, exactly one has its INSERT accepted: the
\* table never has two rows for a URL, a Create that a rival has beaten adds
\* no row, and once such a Create has returned the table has exactly one
\* row for its URL.
SingleWinner ==
    /\ \A u \in URLInputs : Cardinality(SelectByURL(links, u)) <= 1
    /\ (last.op = "Create" /\ last.rival = "beaten") => last.added = {}
    /\ (last.op = "Create" /\ "exec" \in last.trace)
          => Cardinality(SelectByURL(links, last.reqUrl)) = 1

\* C15 (no divergent codes): in every interleaving, two Creates that return
\* successfully return the same code if they were called with the same URL,
\* and different codes if they were called with different URLs.
NoDivergentCodes ==
    \A a, b \in created : (a[1] = b[1]) <=> (a[2] = b[2])

\* Creates have returned codes for two URLs, the last of them a code that
\* was allocated before
NoDivergentCodesWitness ==
    /\ Cardinality(created) = 2
    /\ last.op = "Create"
    /\ last.res.resp
    /\ last.added = {}
    /\ << last.reqUrl, last.res.link >> \in created

\* C16 (lookup before insert): a Create enters its loop, where codes are
\* generated and inserted, only from a lookup by URL that found no row, and
\* rows are added from that loop only; when the lookup finds a row, the
\* Create returns the code of that row having issued the lookup and nothing
\* else, and the table is unchanged.
LookupBeforeInsert ==
    [][/\ links' # links
            => \E p \in Handlers : pc[p] = "create_exec" /\ "query" \in trace[p]
       /\ \A p \in Handlers :
            /\ (pc[p] # "create_exec" /\ pc'[p] = "create_exec")
                  => /\ pc[p] = "create_query"
                     /\ SelectByURL(links, reqUrl[p]) = {}
                     /\ err'[p] = ErrNoRows
                     /\ trace'[p] = {"query"}
            /\ (pc[p] = "create_query" /\ pc'[p] = "idle" /\ last'.err = ErrNil)
                  => /\ \E r \in SelectByURL(links, reqUrl[p]) :
                            last'.res = LinkResponse(r.link)
                     /\ last'.trace = {"query"}
                     /\ last'.added = {}
                     /\ links' = links
            /\ (pc[p] = "create_query" /\ pc'[p] # "create_query"
                   /\ SelectByURL(links, reqUrl[p]) # {})
                  => /\ pc'[p] = "idle"
                     /\ "exec" \notin last'.trace
                     /\ links' = links]_vars

\* a Create has found the row of its URL and returned the code of the row
\* while another Create is in its loop
LookupBeforeInsertWitness ==
    /\ last.op = "Create"
    /\ last.res.resp
    /\ last.trace = {"query"}
    /\ LinkRow(last.res.link, last.reqUrl) \in links
    /\ \E p \in Handlers : pc[p] = "create_exec"

\* C17 (Get is read-only): no step of a Get changes the table, whatever the
\* request and whatever the outcome (a URL, ErrURLNotFound, ErrInvalidLink
\* or ErrReqProc): the rows after the step are the rows before it.
GetReadOnly ==
    [][/\ (last' # last /\ last'.op = "Get") => links' = links
       /\ \A p \in Handlers :
            /\ (pc[p] = "idle" /\ pc'[p] = "get_query") => links' = links
            /\ (pc[p] = "get_query" /\ pc'[p] = "idle")
                  => /\ links' = links
                     /\ last'.op = "Get"
                     /\ last'.added = {}]_vars

\* a Get has returned the URL of a row, and the row is in the table
GetReadOnlyWitness ==
    /\ last.op = "Get"
    /\ last.res.resp
    /\ LinkRow(last.reqLink, last.res.url) \in links
    /\ last.trace = {"query"}

\* C18 (one row per successful allocation): a step adds at most one row to
\* the table; the row (c, u) is added by a Create of u, in the step in which
\* that Create returns c, so a Create adds one row at most and one whose
\* code it returns; a Create that returns an error has added no row.
OneRowPerAllocation ==
    [][/\ Cardinality(links' \ links) <= 1
       /\ \A r \in links' \ links :
            /\ last'.op = "Create"
            /\ last'.reqUrl = r.original_url
            /\ last'.res = LinkResponse(r.link)
            /\ last'.added = {r}
            /\ \E p \in Handlers :
                  /\ pc[p] = "create_exec" /\ pc'[p] = "idle"
                  /\ reqUrl[p] = r.original_url
       /\ (last' # last /\ last'.op = "Create" /\ last'.res.err # ErrNil)
            => /\ links' = links
               /\ last'.added = {}]_vars

\* a Create has returned the code of the one row it added, and the table
\* has another row beside it
OneRowPerAllocationWitness ==
    /\ last.op = "Create"
    /\ last.added = {LinkRow(last.res.link, last.reqUrl)}
    /\ Cardinality(links) = 2
    /\ last.added \subseteq links

\* C19 (no spurious failure without concurrency): with one call at a time
\* and the database answering every statement, a Create of a URL the
\* pattern accepts never returns ErrReqProc.
NoSpuriousFailure ==
    (last.op = "Create" /\ URLTemplateMatch[last.reqUrl])
        => last.res.err # ErrReqProc

====
